---- MODULE Spec2Model ----
(***************************************************************************)
(* MCP Virtual API: the response generator (generators/ollamaGenerator.js) *)
(* and the route handlers that call it (server.js).                        *)
(*                                                                         *)
(* JSON values are tagged records.  A JavaScript string is a TLA+ string;  *)
(* the text of an LLM reply, on which the code works character by          *)
(* character, is a sequence of one-character strings.                      *)
(***************************************************************************)
EXTENDS Integers, Sequences, FiniteSets, TLC

\* ------------------------------------------------------------------ bounds
\* In-flight calls of generate that may overlap.
MaxCalls == 2
\* Length of the LLM texts that are enumerated exhaustively.
MaxTextLen == 4

\* ------------------------------------------------------- JavaScript values
Undefined == [t |-> "undefined"]
Null == [t |-> "null"]
Str(s) == [t |-> "str", s |-> s]
Num(n) == [t |-> "num", n |-> n]
Bool(b) == [t |-> "bool", b |-> b]
Arr(q) == [t |-> "arr", q |-> q]
Obj(f) == [t |-> "obj", f |-> f]
\* A string held character by character (the LLM's text and its substrings).
Text(q) == [t |-> "text", q |-> q]

\* The object with no own property, {}.
EmptyObj == Obj(<<>>)

\* ToBoolean, as `if (v)`, `v ? a : b`, `a && b` and `!v` apply it.
Truthy(v) ==
  CASE v.t = "undefined" -> FALSE
    [] v.t = "null" -> FALSE
    [] v.t = "str" -> v.s # ""
    [] v.t = "num" -> v.n # 0
    [] v.t = "bool" -> v.b
    [] v.t = "text" -> v.q # <<>>
    [] OTHER -> TRUE

\* typeof v === 'object': objects, arrays and null.
TypeofObject(v) == v.t \in {"obj", "arr", "null"}

\* The characters of the strings that schemas of the model hold, for the
\* places where the code indexes into a string.
JsChars(s) ==
  CASE s = "string" -> <<"s", "t", "r", "i", "n", "g">>
    [] s = "number" -> <<"n", "u", "m", "b", "e", "r">>
    [] s = "boolean" -> <<"b", "o", "o", "l", "e", "a", "n">>
    [] s = "object" -> <<"o", "b", "j", "e", "c", "t">>
    [] s = "X" -> <<"X">>
    [] s = "Y" -> <<"Y">>
    [] OTHER -> <<>>

\* The own enumerable string-keyed properties of v, as Object.entries(v)
\* lists them: a mapping from key to value.
ObjectEntries(v) ==
  CASE v.t = "obj" -> v.f
    [] v.t = "arr" -> [k \in {ToString(i - 1) : i \in 1..Len(v.q)} |->
                         LET i == CHOOSE i \in 1..Len(v.q) : ToString(i - 1) = k
                         IN v.q[i]]
    [] v.t = "str" -> [k \in {ToString(i - 1) : i \in 1..Len(JsChars(v.s))} |->
                         LET i == CHOOSE i \in 1..Len(JsChars(v.s)) : ToString(i - 1) = k
                         IN Str(JsChars(v.s)[i])]
    [] OTHER -> <<>>

\* v.key throws a TypeError exactly when v is null or undefined.
GetThrows(v) == v.t \in {"null", "undefined"}

\* The value of the property access v.key (v["key"]) where it does not throw.
Get(v, key) ==
  CASE v.t = "obj" -> IF key \in DOMAIN v.f THEN v.f[key] ELSE Undefined
    [] v.t = "arr" -> IF key = "length" THEN Num(Len(v.q))
                      ELSE IF key \in DOMAIN ObjectEntries(v)
                           THEN ObjectEntries(v)[key] ELSE Undefined
    [] v.t = "str" -> IF key = "length" THEN Num(Len(v.s))
                      ELSE IF key \in DOMAIN ObjectEntries(v)
                           THEN ObjectEntries(v)[key] ELSE Undefined
    [] OTHER -> Undefined

\* --------------------------------------------- the text of an LLM response
\* The characters texts are made of.  "k" stands for an object key with its
\* colon ("x":), "w" for a character of prose; the rest stand for themselves.
Whitespace == {" ", "\n"}
Digits == {"1", "2", "3"}

DigitVal(ch) == CASE ch = "1" -> 1 [] ch = "2" -> 2 [] ch = "3" -> 3

\* String.prototype.trim: the text without its leading and trailing whitespace.
Trim(s) ==
  LET keep == {i \in 1..Len(s) : s[i] \notin Whitespace}
  IN IF keep = {} THEN <<>>
     ELSE SubSeq(s, CHOOSE i \in keep : \A j \in keep : i <= j,
                    CHOOSE i \in keep : \A j \in keep : i >= j)

\* String.prototype.startsWith for a one-character prefix.
StartsWith(s, ch) == Len(s) >= 1 /\ s[1] = ch

\* The same pattern with a lazy quantifier, /<open>[\s\S]*?<close>/: the match
\* ends at the first `close` after its start.
LazyMatch(s, open, close) ==
  LET starts == {i \in 1..Len(s) : s[i] = open /\ \E j \in (i + 1)..Len(s) : s[j] = close}
  IN IF starts = {} THEN Null
     ELSE LET i == CHOOSE i \in starts : \A i2 \in starts : i <= i2
              ends == {j \in (i + 1)..Len(s) : s[j] = close}
              j == CHOOSE j \in ends : \A j2 \in ends : j <= j2
          IN Text(SubSeq(s, i, j))

\* s.match(/<open>[\s\S]*<close>/): the leftmost match, made as long as
\* possible, or null.  The match starts at the first `open` that has a
\* `close` after it and ends at the last `close` of the text.
GreedyMatch(s, open, close) ==
  LET starts == {i \in 1..Len(s) : s[i] = open /\ \E j \in (i + 1)..Len(s) : s[j] = close}
  IN IF starts = {} THEN Null
     ELSE LET i == CHOOSE i \in starts : \A i2 \in starts : i <= i2
              ends == {j \in (i + 1)..Len(s) : s[j] = close}
              j == CHOOSE j \in ends : \A j2 \in ends : j >= j2
          IN Text(SubSeq(s, i, j))

\* Strategy 4: content.split('\n'), then the first line whose trimmed text
\* starts with { or [; the candidate is that line and all that follow it,
\* joined by '\n' again.
LineSearch(content) ==
  LET lineStarts == {p \in 1..(Len(content) + 1) : p = 1 \/ content[p - 1] = "\n"}
      lineEnd(p) == IF \E e \in p..Len(content) : content[e] = "\n"
                    THEN (CHOOSE e \in p..Len(content) :
                            content[e] = "\n" /\ \A e2 \in p..(e - 1) : content[e2] # "\n") - 1
                    ELSE Len(content)
      line(p) == Trim(SubSeq(content, p, lineEnd(p)))
      hits == {p \in lineStarts : StartsWith(line(p), "{") \/ StartsWith(line(p), "[")}
  IN IF hits = {} THEN Null
     ELSE Text(SubSeq(content, CHOOSE p \in hits : \A p2 \in hits : p <= p2, Len(content)))

\* ------------------------------------------------------------- JSON.parse
ParseFail == [ok |-> FALSE, v |-> Undefined, i |-> 0]
ParseOk(v, i) == [ok |-> TRUE, v |-> v, i |-> i]

RECURSIVE SkipWs(_, _)
SkipWs(s, i) == IF i <= Len(s) /\ s[i] \in Whitespace THEN SkipWs(s, i + 1) ELSE i

RECURSIVE ParseNumber(_, _, _)
ParseNumber(s, i, acc) ==
  IF i <= Len(s) /\ s[i] \in Digits
  THEN ParseNumber(s, i + 1, 10 * acc + DigitVal(s[i]))
  ELSE ParseOk(Num(acc), i)

\* From the character after the opening quote.  A raw newline is not allowed
\* in a string, and the quote that opens a key ends the string.
RECURSIVE ParseString(_, _, _)
ParseString(s, i, acc) ==
  IF i > Len(s) THEN ParseFail
  ELSE IF s[i] = "\"" THEN ParseOk(Str(acc), i + 1)
  ELSE IF s[i] \in {"\n", "k"} THEN ParseFail
  ELSE ParseString(s, i + 1, acc \o s[i])

RECURSIVE ParseValue(_, _)
RECURSIVE ParseMembers(_, _, _)
RECURSIVE ParseElements(_, _, _)

ParseValue(s, i0) ==
  LET i == SkipWs(s, i0)
  IN IF i > Len(s) THEN ParseFail
     ELSE IF s[i] = "{"
       THEN LET j == SkipWs(s, i + 1)
            IN IF j <= Len(s) /\ s[j] = "}" THEN ParseOk(EmptyObj, j + 1)
               ELSE ParseMembers(s, j, <<>>)
     ELSE IF s[i] = "["
       THEN LET j == SkipWs(s, i + 1)
            IN IF j <= Len(s) /\ s[j] = "]" THEN ParseOk(Arr(<<>>), j + 1)
               ELSE ParseElements(s, j, <<>>)
     ELSE IF s[i] \in Digits THEN ParseNumber(s, i, 0)
     ELSE IF s[i] = "\"" THEN ParseString(s, i + 1, "")
     ELSE ParseFail

\* At the place of a key; a repeated key overwrites the earlier one.
ParseMembers(s, i, acc) ==
  IF i > Len(s) \/ s[i] # "k" THEN ParseFail
  ELSE LET r == ParseValue(s, i + 1)
       IN IF ~r.ok THEN ParseFail
          ELSE LET acc2 == [x \in DOMAIN acc \cup {"x"} |-> IF x = "x" THEN r.v ELSE acc[x]]
                   j == SkipWs(s, r.i)
               IN IF j > Len(s) THEN ParseFail
                  ELSE IF s[j] = "}" THEN ParseOk(Obj(acc2), j + 1)
                  ELSE IF s[j] = "," THEN ParseMembers(s, SkipWs(s, j + 1), acc2)
                  ELSE ParseFail

\* At the place of an element.
ParseElements(s, i, acc) ==
  LET r == ParseValue(s, i)
  IN IF ~r.ok THEN ParseFail
     ELSE LET j == SkipWs(s, r.i)
          IN IF j > Len(s) THEN ParseFail
             ELSE IF s[j] = "]" THEN ParseOk(Arr(Append(acc, r.v)), j + 1)
             ELSE IF s[j] = "," THEN ParseElements(s, SkipWs(s, j + 1), Append(acc, r.v))
             ELSE ParseFail

\* JSON.parse(s): the value, or a SyntaxError (ok = FALSE).
JSONParse(s) ==
  LET r == ParseValue(s, 1)
  IN IF r.ok /\ SkipWs(s, r.i) > Len(s) THEN [ok |-> TRUE, v |-> r.v]
     ELSE [ok |-> FALSE, v |-> Undefined]

\* ------------------------------------------------ generate: the try block
\* What the awaited axios.post yields: a rejection (connection refused,
\* timeout, non-2xx status) or a resolved response with the parsed body `data`.
Rejected == [status |-> "rejected", data |-> Undefined]
Resolved(data) == [status |-> "resolved", data |-> data]
\* A body { response: <text> }.
TextReply(text) == Resolved(Obj([response |-> Text(text)]))

ErrRequest == "request failed"
ErrType == "TypeError"
ErrSyntax == "SyntaxError"
ErrNoJson == "No valid JSON found in response"

\* Strategy 1: content.match(/\{[\s\S]*\}/).
jsonMatch1(content) == GreedyMatch(content, "{", "}")
\* Strategy 2: content.match(/\[[\s\S]*\]/).
jsonMatch2(content) == GreedyMatch(content, "[", "]")

\* The strategies with the direct use of content (strategy 3) tried first.
ExtractDirectFirst(content) ==
  IF StartsWith(content, "{") \/ StartsWith(content, "[")
  THEN [jsonContent |-> Text(content), strategy |-> 3]
  ELSE IF Truthy(jsonMatch1(content))
  THEN [jsonContent |-> jsonMatch1(content), strategy |-> 1]
  ELSE IF Truthy(jsonMatch2(content))
  THEN [jsonContent |-> jsonMatch2(content), strategy |-> 2]
  ELSE IF Truthy(LineSearch(content))
  THEN [jsonContent |-> LineSearch(content), strategy |-> 4]
  ELSE [jsonContent |-> Null, strategy |-> 0]

\* The candidate and the strategy that assigned it (0: none), following the
\* four `if` blocks in order; each later block runs only while jsonContent
\* is still falsy.
Extract(content) ==
  LET c1 == IF Truthy(jsonMatch1(content))
            THEN [jsonContent |-> jsonMatch1(content), strategy |-> 1]
            ELSE [jsonContent |-> Null, strategy |-> 0]
      c2 == IF ~Truthy(c1.jsonContent) /\ Truthy(jsonMatch2(content))
            THEN [jsonContent |-> jsonMatch2(content), strategy |-> 2]
            ELSE c1
      c3 == IF ~Truthy(c2.jsonContent)
               /\ (StartsWith(content, "{") \/ StartsWith(content, "["))
            THEN [jsonContent |-> Text(content), strategy |-> 3]
            ELSE c2
      c4 == IF ~Truthy(c3.jsonContent) /\ Truthy(LineSearch(content))
            THEN [jsonContent |-> LineSearch(content), strategy |-> 4]
            ELSE c3
  IN c4

TryThrew(err, jc, strategy) ==
  [threw |-> TRUE, err |-> err, value |-> Undefined, jsonContent |-> jc, strategy |-> strategy]
TryReturned(v, jc, strategy) ==
  [threw |-> FALSE, err |-> "", value |-> v, jsonContent |-> jc, strategy |-> strategy]

\* The try block from the point where the awaited request settles.
TryBody(reply) ==
  IF reply.status = "rejected" THEN TryThrew(ErrRequest, Null, 0)
  ELSE IF GetThrows(reply.data) THEN TryThrew(ErrType, Null, 0)
  ELSE IF Get(reply.data, "response").t # "text" THEN TryThrew(ErrType, Null, 0)
  ELSE LET content == Trim(Get(reply.data, "response").q)
           e == Extract(content)
       IN IF Truthy(e.jsonContent)
          THEN LET parsed == JSONParse(e.jsonContent.q)
               IN IF parsed.ok THEN TryReturned(parsed.v, e.jsonContent, e.strategy)
                  ELSE TryThrew(ErrSyntax, e.jsonContent, e.strategy)
          ELSE TryThrew(ErrNoJson, e.jsonContent, e.strategy)

\* ---------------------------------------------- generate: the catch block
ErrorMessage == "Failed to generate mock response from LLM."

\* The fallback iterating responseSchema's own entries whatever they are.
propEntriesFlat(responseSchema) == ObjectEntries(responseSchema)

\* The entries the fallback iterates: those of responseSchema.properties when
\* that is truthy, else those of responseSchema itself.
propEntries(responseSchema) ==
  IF Truthy(Get(responseSchema, "properties"))
  THEN ObjectEntries(Get(responseSchema, "properties"))
  ELSE ObjectEntries(responseSchema)

\* `prop.type` is evaluated for every prop that is not a string, and throws
\* a TypeError on null.
FieldThrows(prop) == prop.t # "str" /\ GetThrows(prop)

\* The callback with the type tested before the enum list.
FieldValueTypeFirst(key, prop) ==
  LET type == IF prop.t = "str" THEN prop ELSE Get(prop, "type")
      enumVals == IF TypeofObject(prop) /\ Truthy(Get(prop, "enum"))
                  THEN Get(prop, "enum") ELSE Null
  IN IF type = Str("string") THEN Str("sample_" \o key)
     ELSE IF type = Str("number") THEN Num(123)
     ELSE IF type = Str("boolean") THEN Bool(TRUE)
     ELSE IF Truthy(enumVals) /\ Truthy(Get(enumVals, "length")) THEN Get(enumVals, "0")
     ELSE Str("sample_" \o key)

\* The value the forEach callback assigns to fallback[key].
FieldValue(key, prop) ==
  LET type == IF prop.t = "str" THEN prop ELSE Get(prop, "type")
      enumVals == IF TypeofObject(prop) /\ Truthy(Get(prop, "enum"))
                  THEN Get(prop, "enum") ELSE Null
  IN IF Truthy(enumVals) /\ Truthy(Get(enumVals, "length")) THEN Get(enumVals, "0")
     ELSE IF type = Str("string") THEN Str("sample_" \o key)
     ELSE IF type = Str("number") THEN Num(123)
     ELSE IF type = Str("boolean") THEN Bool(TRUE)
     ELSE Str("sample_" \o key)

Returned(v) == [outcome |-> "returned", value |-> v]
\* The promise generate returned is rejected: an exception left the function.
Threw == [outcome |-> "threw", value |-> Undefined]

\* A catch block that hands err.message to the caller.
CatchBodyLeaking(schema, input, err) ==
  IF Truthy(Get(schema, "responseSchema"))
  THEN Returned(Obj([k \in DOMAIN propEntries(Get(schema, "responseSchema")) |-> Str(err)]))
  ELSE Returned(Obj([error |-> Str(err)]))

\* The catch block: err and input are in scope, and only logged.
CatchBody(schema, input, err) ==
  IF Truthy(Get(schema, "responseSchema"))
  THEN LET entries == propEntries(Get(schema, "responseSchema"))
       IN IF \E k \in DOMAIN entries : FieldThrows(entries[k]) THEN Threw
          ELSE Returned(Obj([k \in DOMAIN entries |-> FieldValue(k, entries[k])]))
  ELSE Returned(Obj([error |-> Str(ErrorMessage)]))

\* How generate settles once the try block has run to its return or its throw.
Settle(schema, input, t) ==
  IF t.threw THEN CatchBody(schema, input, t.err) ELSE Returned(t.value)

\* generate from the point where the request settles to its return.
GenerateBody(schema, input, reply) == Settle(schema, input, TryBody(reply))

\* ------------------------------------------------------------ the inputs
\* An EndpointSchema at `endpoint` with the given responseSchema (Undefined:
\* the schema has no responseSchema property).
SchemaAt(endpoint, responseSchema) ==
  IF responseSchema = Undefined
  THEN Obj([endpoint |-> Str(endpoint), method |-> Str("GET")])
  ELSE Obj([endpoint |-> Str(endpoint), method |-> Str("GET"),
            responseSchema |-> responseSchema])

MkSchema(responseSchema) == SchemaAt("/e", responseSchema)

EnumXY == Arr(<<Str("X"), Str("Y")>>)

\* Type descriptors: bare type names, descriptor objects, and null.
Descriptors ==
  { Str("string"), Str("number"), Str("boolean"), Str("object"), Null, EmptyObj,
    Obj([type |-> Str("number")]),
    Obj([enum |-> EnumXY]),
    Obj([type |-> Str("boolean"), enum |-> EnumXY]),
    Obj([type |-> Str("string"), enum |-> Arr(<<>>)]) }

FieldNames == {"a", "b", "type", "properties"}
\* Fields per mapping in the enumerated schemas.
MaxFields == 2

Mappings ==
  UNION {[ks -> Descriptors] : ks \in {S \in SUBSET FieldNames : Cardinality(S) <= MaxFields}}

\* responseSchema = { a: "string", b: "number", c: { enum: ["X", "Y"] } }.
ExampleResponseSchema ==
  Obj([a |-> Str("string"), b |-> Str("number"), c |-> Obj([enum |-> EnumXY])])
\* responseSchema = { properties: { id: "number" } }.
NestedResponseSchema == Obj([properties |-> Obj([id |-> Str("number")])])

\* Flat mappings, mappings wrapped in `properties` (alone or beside a `type`
\* key), and the degenerate cases.
ResponseSchemas ==
  {Undefined, Null, ExampleResponseSchema, NestedResponseSchema}
    \cup {Obj(m) : m \in Mappings}
    \cup {Obj([properties |-> Obj(m)]) : m \in Mappings}
    \cup {Obj([type |-> Str("object"), properties |-> Obj(m)]) : m \in Mappings}

\* The caller's input: req.query or req.body.
Inputs == {EmptyObj, Obj([id |-> Str("X")])}

Chars == {"{", "}", "[", "]", ",", "k", "1", "\"", "w", "\n", " "}
TextsUpTo(n) == UNION {[1..m -> Chars] : m \in 0..n}

\* 'Sure! Here is the JSON: {"x":1}'
SureText == <<"w", "w", " ", "{", "k", "1", "}">>
\* '[1,2,3]'
BareArrayText == <<"[", "1", ",", "2", ",", "3", "]">>
\* '[{"x":1},{"x":2}]'
ArrayOfObjectsText == <<"[", "{", "k", "1", "}", ",", "{", "k", "2", "}", "]">>
\* '{"x":[{"x":1}]}'
NestedText == <<"{", "k", "[", "{", "k", "1", "}", "]", "}">>
\* '[{"x":1}]'
ArrayOfOneText == <<"[", "{", "k", "1", "}", "]">>
ExampleTexts == {SureText, BareArrayText, ArrayOfObjectsText, ArrayOfOneText, NestedText}
\* The texts the LLM may answer with.
Texts == TextsUpTo(MaxTextLen) \cup ExampleTexts

\* Ways a generation fails: the request is rejected; the body is not an
\* object with a string `response`; the text holds no candidate; the
\* candidate does not parse.
FailureReplies ==
  { Rejected, Resolved(Str("X")), Resolved(EmptyObj), Resolved(Obj([response |-> Num(1)])),
    TextReply(<<>>), TextReply(<<"w">>), TextReply(<<"{", "w", "}">>) }

\* ---------------------------------------------------------------- state
VARIABLES
  heap,       \* the schema objects the route handlers hold, by identity
  pc,         \* per call of generate: "idle", "awaiting" (suspended at the await), "done"
  args,       \* per activation of generate: its parameters schema (a reference) and input
  given,      \* per call, as the call was made: the schema object passed and its value,
              \* the input, and the calls then in flight
  response,   \* per call: the local `response`
  local,      \* per call: the local jsonContent, the strategy that set it, the error caught
  result,     \* per call: how the promise settled
  requests,   \* per call: requests sent to the LLM service
  files,      \* the schemas directory: file name -> content
  schemas,    \* the registry `schemas`: its keys in insertion order, each with its schema object
  routes,     \* the application's route stack, in registration order
  clock,      \* the latest value Date.now() returned (0: not read yet)
  http,       \* the latest request to the server and, for the admin routes, its reply
  accepted    \* history: the bodies POST /schemas replied success for, each with
              \* its file, and whether the process that took it still runs

callVars == <<pc, args, given, response, local, result, requests>>
serverVars == <<files, schemas, routes, clock, http, accepted>>
vars == <<heap, pc, args, given, response, local, result, requests,
          files, schemas, routes, clock, http, accepted>>

Calls == 1..MaxCalls

\* Parameters kept in one module-level slot that all invocations share.
SharedFrame(c) == 1

\* The activation record of call c: parameters and locals belong to one
\* invocation of the function.
Frame(c) == c

\* A post that is sent again.
AxiosPostTwice(sent) == sent + 2

\* axios.post: one request goes out.
AxiosPost(sent) == sent + 1

InitCalls ==
  /\ pc = [c \in Calls |-> "idle"]
  /\ args = [c \in Calls |-> [schema |-> 0, input |-> Undefined]]
  /\ given = [c \in Calls |->
                [ref |-> 0, schema |-> Undefined, input |-> Undefined, during |-> {}]]
  /\ response = [c \in Calls |-> Null]
  /\ local = [c \in Calls |-> [jsonContent |-> Null, strategy |-> 0, err |-> ""]]
  /\ result = [c \in Calls |-> [outcome |-> "pending", value |-> Undefined]]
  /\ requests = [c \in Calls |-> 0]

\* A route handler calls generate(schema, input) with the schema object o it
\* holds; generate builds the prompt, posts it and suspends at the await.
Call(c, o, input) ==
  /\ pc[c] = "idle"
  /\ o \in DOMAIN heap
  /\ args' = [args EXCEPT ![Frame(c)] = [schema |-> o, input |-> input]]
  /\ given' = [given EXCEPT ![c] =
                 [ref |-> o, schema |-> heap[o], input |-> input,
                  during |-> {d \in Calls : pc[d] = "awaiting"}]]
  /\ requests' = [requests EXCEPT ![c] = AxiosPost(@)]
  /\ pc' = [pc EXCEPT ![c] = "awaiting"]
  /\ UNCHANGED <<heap, response, local, result>>

\* The request settles with `reply`; generate runs to its return.
Resume(c, reply) ==
  /\ pc[c] = "awaiting"
  /\ LET schema == heap[args[Frame(c)].schema]
         input == args[Frame(c)].input
         t == TryBody(reply)
     IN /\ response' = [response EXCEPT ![c] = IF reply.status = "resolved" THEN reply ELSE Null]
        /\ local' = [local EXCEPT ![c] =
                       [jsonContent |-> t.jsonContent, strategy |-> t.strategy, err |-> t.err]]
        /\ result' = [result EXCEPT ![c] = Settle(schema, input, t)]
  /\ pc' = [pc EXCEPT ![c] = "done"]
  /\ UNCHANGED <<heap, args, given, requests>>

\* No exchange yet.
NoExchange == [n |-> 0, req |-> "", body |-> Undefined, status |-> 0, reply |-> Undefined]

\* generate on its own: no server around it.
NoServer ==
  /\ files = <<>>
  /\ schemas = <<>>
  /\ routes = <<>>
  /\ clock = 0
  /\ http = NoExchange
  /\ accepted = <<>>

\* -- overlapping calls on the schemas of a running server
ServedSchemas ==
  << SchemaAt("/e", ExampleResponseSchema), SchemaAt("/f", ExampleResponseSchema),
     SchemaAt("/g", Undefined) >>

Replies ==
  { Rejected, Resolved(EmptyObj), TextReply(<<"w">>), TextReply(<<"{", "w", "}">>),
    TextReply(SureText) }

Init ==
  /\ heap = ServedSchemas
  /\ InitCalls
  /\ NoServer

Next ==
  \/ \E c \in Calls, o \in DOMAIN heap, input \in Inputs :
       Call(c, o, input) /\ UNCHANGED serverVars
  \/ \E c \in Calls, reply \in Replies : Resume(c, reply) /\ UNCHANGED serverVars

Spec == Init /\ [][Next]_vars

\* -- one call, every schema, every way to fail
InitFallback ==
  /\ \E rs \in ResponseSchemas : heap = <<MkSchema(rs)>>
  /\ InitCalls
  /\ NoServer

NextFallback ==
  \/ \E input \in Inputs : Call(1, 1, input) /\ UNCHANGED serverVars
  \/ \E reply \in FailureReplies \cup {TextReply(SureText)} :
       Resume(1, reply) /\ UNCHANGED serverVars

SpecFallback == InitFallback /\ [][NextFallback]_vars

\* -- one call, every text
\* responseSchema { x: "number" }, [ { x: "number" } ], { x: [ { x: "number" } ] }.
ObjectShaped == Obj([x |-> Str("number")])
ArrayShaped == Arr(<<ObjectShaped>>)
ArrayInObject == Obj([x |-> ArrayShaped])

InitExtract ==
  /\ heap = <<MkSchema(ObjectShaped), MkSchema(ArrayShaped), MkSchema(ArrayInObject)>>
  /\ InitCalls
  /\ NoServer

NextExtract ==
  \/ \E o \in DOMAIN heap : Call(1, o, EmptyObj) /\ UNCHANGED serverVars
  \/ pc[1] = "awaiting" /\ \E text \in Texts :
       Resume(1, TextReply(text)) /\ UNCHANGED serverVars

SpecExtract == InitExtract /\ [][NextExtract]_vars

\* ---------------------------------------------------------------- server.js
\* POST /schemas requests in a run.
MaxPosts == 2

\* String.prototype.toLowerCase on the method names of the model.
ToLowerCase(s) ==
  CASE s = "GET" -> "get"
    [] s = "POST" -> "post"
    [] s = "FETCH" -> "fetch"
    [] s = ".JSON" -> ".json"
    [] OTHER -> s

\* The routing methods the Express application object has: app[method] is a
\* function for these and undefined for any other name of the model.
AppMethods == {"get", "post", "put", "delete", "patch"}

\* The key of the registry, `${method} ${route}`.
Key(method, route) == method \o " " \o route

\* endpoint.replace(/\W+/g, '_').replace(/^_+|_+$/g, '') || 'schema', on the
\* endpoints of the model.
SafeName(endpoint) ==
  CASE endpoint = "/e" -> "e"
    [] endpoint = "/f" -> "f"
    [] endpoint = "/g/h" -> "g_h"
    [] endpoint = "/" -> "schema"
    [] OTHER -> endpoint

\* base.replace(/__/g, '/').replace(/_/g, '/') on the names of the model.
Slashed(name) ==
  CASE name = "g_h" -> "g/h"
    [] OTHER -> name

\* A file of the directory: `${prefix}_${name}${ext}` or, with no prefix,
\* `${name}${ext}`.
FileName(prefix, name, ext) == [prefix |-> prefix, name |-> name, ext |-> ext]

\* '/' + base.replace(...) for base = path.parse(file).name.
RouteOfBase(file) ==
  IF file.prefix = "" THEN "/" \o Slashed(file.name)
  ELSE "/" \o file.prefix \o "/" \o Slashed(file.name)

\* JSON.stringify keeps what JSON can hold: a property whose value is
\* undefined is dropped, an undefined array element becomes null.
RECURSIVE Plain(_)
Plain(v) ==
  CASE v.t = "obj" ->
         Obj([k \in {j \in DOMAIN v.f : v.f[j].t # "undefined"} |-> Plain(v.f[k])])
    [] v.t = "arr" ->
         Arr([i \in DOMAIN v.q |-> IF v.q[i].t = "undefined" THEN Null ELSE Plain(v.q[i])])
    [] OTHER -> v

\* The content of a file: the text of a JSON document, or other text.
JSONStringify(v) == [t |-> "json", doc |-> Plain(v)]
OtherText == [t |-> "prose"]

\* o with o[key] = val.
With(o, key, val) ==
  Obj([k \in DOMAIN o.f \cup {key} |-> IF k = key THEN val ELSE o.f[k]])

\* const { endpoint, method, context, ...rest } = schema.
Rest(schema) ==
  Obj([k \in DOMAIN schema.f \ {"endpoint", "method", "context"} |-> schema.f[k]])

\* schemas[key] = ref: a new key goes last, a present key keeps its place.
Put(registry, key, ref) ==
  IF \E i \in DOMAIN registry : registry[i].key = key
  THEN [i \in DOMAIN registry |->
          IF registry[i].key = key THEN [key |-> key, ref |-> ref] ELSE registry[i]]
  ELSE Append(registry, [key |-> key, ref |-> ref])

\* The application as registerEndpoint sees and changes it.
App(h, reg, rts) == [heap |-> h, schemas |-> reg, routes |-> rts, threw |-> FALSE]

\* registerEndpoint(schema): the guard; then the registry entry; then the
\* route, whose attaching throws when app[method] is not a function.
RegisterEndpoint(app, schema) ==
  IF \/ ~Truthy(schema)
     \/ Get(schema, "endpoint").t # "str"
     \/ Get(schema, "method").t # "str"
  THEN app
  ELSE LET route == Get(schema, "endpoint").s
           method == ToLowerCase(Get(schema, "method").s)
           ref == Len(app.heap) + 1
           stored == [app EXCEPT !.heap = Append(@, schema),
                                 !.schemas = Put(@, Key(method, route), ref)]
       IN IF method \in AppMethods
          THEN [stored EXCEPT !.routes =
                  Append(@, [method |-> method, route |-> route, schema |-> ref])]
          ELSE [stored EXCEPT !.threw = TRUE]

\* The body of the loader's forEach for a .json file: parse, fill in what is
\* missing, register; whatever is thrown is caught and logged.
LoadFile(app, file, raw) ==
  IF raw.t # "json" THEN app
  ELSE LET parsed == raw.doc
           s1 == IF ~Truthy(Get(parsed, "endpoint"))
                 THEN With(parsed, "endpoint", Str(RouteOfBase(file))) ELSE parsed
           s2 == IF ~Truthy(Get(s1, "method")) THEN With(s1, "method", Str("GET")) ELSE s1
           s3 == IF ~Truthy(Get(s2, "responseSchema"))
                 THEN With(s2, "responseSchema", Rest(s2)) ELSE s2
       IN [RegisterEndpoint(app, s3) EXCEPT !.threw = FALSE]

\* The .json files of the directory; the loader skips every other file.
JsonFiles(dir) == {file \in DOMAIN dir : ToLowerCase(dir[file].ext) = ".json"}

\* The orders in which readdirSync may list them.
RECURSIVE Orders(_)
Orders(S) ==
  IF S = {} THEN {<<>>}
  ELSE UNION {{<<file>> \o rest : rest \in Orders(S \ {file})} : file \in S}

RECURSIVE LoadFiles(_, _, _)
LoadFiles(order, dir, app) ==
  IF order = <<>> THEN app
  ELSE LoadFiles(Tail(order), dir, LoadFile(app, Head(order), dir[Head(order)].content))

\* The admin routes, attached after the loader has run.  Their handler is
\* not a schema's: schema 0.
AdminRoutes ==
  << [method |-> "get", route |-> "/schemas", schema |-> 0],
     [method |-> "post", route |-> "/schemas", schema |-> 0] >>

\* The module's top level: an empty registry, the loader, the admin routes.
Startup(dir, order) ==
  LET loaded == LoadFiles(order, dir, App(<<>>, <<>>, <<>>))
  IN [loaded EXCEPT !.routes = @ \o AdminRoutes]

\* Express answers a request with the first route of the stack that matches
\* its method and path; the handlers of the program never pass it on.
\* The index of that route, or 0.
Dispatch(rts, method, route) ==
  LET hits == {i \in DOMAIN rts : rts[i].method = method /\ rts[i].route = route}
  IN IF hits = {} THEN 0 ELSE CHOOSE i \in hits : \A j \in hits : i <= j

\* Object.values(schemas).
Listed == [i \in DOMAIN schemas |-> heap[schemas[i].ref]]

Exchange(n, req, body, status, reply) ==
  [n |-> n, req |-> req, body |-> body, status |-> status, reply |-> reply]

\* The validation with no look at responseSchema.
ValidBodyLoose(schema) ==
  /\ Truthy(schema)
  /\ Truthy(Get(schema, "endpoint"))
  /\ Truthy(Get(schema, "method"))

\* The basic validation of POST /schemas passes.
ValidBody(schema) ==
  /\ Truthy(schema)
  /\ Truthy(Get(schema, "endpoint"))
  /\ Truthy(Get(schema, "method"))
  /\ Truthy(Get(schema, "responseSchema"))

InvalidFormat == Obj([error |-> Str("Invalid schema format")])
SaveFailed == Obj([error |-> Str("Failed to save/register schema")])
Added(endpoint) ==
  Obj([message |-> Str("Schema added successfully"), endpoint |-> endpoint])

\* fs.writeFileSync(filePath, content): the file is created or replaced.
WriteFile(dir, file, content) ==
  [f \in DOMAIN dir \cup {file} |->
     IF f = file THEN [ext |-> file.ext, content |-> content] ELSE dir[f]]

\* Date.now() never runs backwards; of the time between two readings only
\* this matters: the same millisecond as the reading before, or a later one.
DateNow == {clock, clock + 1} \ {0}

\* POST /schemas with body `body`; now: what Date.now() returns; ioOk:
\* writeFileSync succeeds.
PostSchemas(body, now, ioOk) ==
  /\ http.n < MaxPosts
  /\ now \in DateNow
  /\ LET n == http.n + 1
         endpoint == Get(body, "endpoint")
     IN IF ~ValidBody(body)
        THEN /\ http' = Exchange(n, "POST /schemas", body, 400, InvalidFormat)
             /\ UNCHANGED <<heap, files, schemas, routes, accepted, clock>>
        ELSE IF endpoint.t # "str"
        THEN /\ http' = Exchange(n, "POST /schemas", body, 500, SaveFailed)
             /\ UNCHANGED <<heap, files, schemas, routes, accepted, clock>>
        ELSE IF ~ioOk
        THEN /\ http' = Exchange(n, "POST /schemas", body, 500, SaveFailed)
             /\ clock' = now
             /\ UNCHANGED <<heap, files, schemas, routes, accepted>>
        ELSE LET file == FileName(ToString(now), SafeName(endpoint.s), ".json")
                 app == RegisterEndpoint(App(heap, schemas, routes), body)
             IN /\ files' = WriteFile(files, file, JSONStringify(body))
                /\ clock' = now
                /\ heap' = app.heap
                /\ schemas' = app.schemas
                /\ routes' = app.routes
                /\ IF app.threw
                   THEN /\ http' = Exchange(n, "POST /schemas", body, 500, SaveFailed)
                        /\ UNCHANGED accepted
                   ELSE /\ http' = Exchange(n, "POST /schemas", body, 200, Added(endpoint))
                        /\ accepted' = Append(accepted,
                             [schema |-> body, file |-> file, n |-> n, live |-> TRUE])
  /\ UNCHANGED callVars

\* GET /schemas.
GetSchemas ==
  /\ http' = Exchange(http.n, "GET /schemas", Undefined, 200, Arr(Listed))
  /\ UNCHANGED <<heap, files, schemas, routes, clock, accepted>>
  /\ UNCHANGED callVars

\* A request to a virtual API: the first matching route's handler takes its
\* input and calls generate with the schema it holds.
Request(method, route, query, body) ==
  LET i == Dispatch(routes, method, route)
  IN /\ i # 0
     /\ routes[i].schema # 0
     /\ Call(1, routes[i].schema, IF method = "get" THEN query ELSE body)
     /\ http' = Exchange(http.n, Key(method, route), Undefined, 0, Undefined)
     /\ UNCHANGED <<files, schemas, routes, clock, accepted>>

\* What the handler sends once generate has settled.
Answer(c) ==
  IF result[c].outcome = "returned"
  THEN [status |-> 200, body |-> result[c].value]
  ELSE [status |-> 500, body |-> Obj([error |-> Str("Failed to generate synthetic response")])]

\* The process is stopped and started again: the directory is what remains.
Restart(order) ==
  /\ LET app == Startup(files, order)
     IN /\ heap' = app.heap
        /\ schemas' = app.schemas
        /\ routes' = app.routes
  /\ accepted' = [i \in DOMAIN accepted |-> [accepted[i] EXCEPT !.live = FALSE]]
  /\ http' = Exchange(http.n, "", Undefined, 0, Undefined)
  /\ pc' = [c \in Calls |-> "idle"]
  /\ args' = [c \in Calls |-> [schema |-> 0, input |-> Undefined]]
  /\ given' = [c \in Calls |->
                 [ref |-> 0, schema |-> Undefined, input |-> Undefined, during |-> {}]]
  /\ response' = [c \in Calls |-> Null]
  /\ local' = [c \in Calls |-> [jsonContent |-> Null, strategy |-> 0, err |-> ""]]
  /\ result' = [c \in Calls |-> [outcome |-> "pending", value |-> Undefined]]
  /\ requests' = [c \in Calls |-> 0]
  /\ UNCHANGED <<files, clock>>

\* -- the server: its directory at startup and the bodies posted to it
\* { id: "number" }: a bare mapping, with no endpoint, method or responseSchema.
MinimalSchema == Obj([id |-> Str("number")])

\* The directory at the first start: g_h.JSON and README.md.
InitialFiles ==
  LET gh == FileName("", "g_h", ".JSON")
      readme == FileName("", "README", ".md")
  IN [f \in {gh, readme} |->
        IF f = gh THEN [ext |-> f.ext, content |-> JSONStringify(MinimalSchema)]
        ELSE [ext |-> f.ext, content |-> OtherText]]

Body(endpoint, method, responseSchema) ==
  Obj([endpoint |-> endpoint, method |-> method, responseSchema |-> responseSchema])

\* Well-formed bodies: the key registered at startup, a new key, and the
\* endpoint of the new key under another method.
GoodBodies ==
  { Body(Str("/g/h"), Str("GET"), ObjectShaped),
    Body(Str("/e"), Str("post"), ExampleResponseSchema),
    Body(Str("/e"), Str("GET"), ObjectShaped) }

\* Bodies that pass the validation with a method Express has no routing
\* function for, a method or an endpoint that is not a string.
OddBodies ==
  { Body(Str("/f"), Str("FETCH"), ObjectShaped),
    Body(Str("/f"), Num(5), ObjectShaped),
    Body(Num(5), Str("GET"), ObjectShaped) }

\* Bodies lacking endpoint, method or responseSchema.
LackingBodies ==
  { EmptyObj,
    Obj([method |-> Str("GET"), responseSchema |-> ObjectShaped]),
    Obj([endpoint |-> Str("/f"), responseSchema |-> ObjectShaped]),
    Obj([endpoint |-> Str("/f"), method |-> Str("GET")]) }

Bodies == GoodBodies \cup OddBodies \cup LackingBodies

RequestLines == {<<"get", "/g/h">>, <<"post", "/e">>}
\* req.query and req.body of the requests to the virtual APIs.
Query == Obj([id |-> Str("X")])
NoBody == EmptyObj

InitServer ==
  /\ files = InitialFiles
  /\ \E order \in Orders(JsonFiles(InitialFiles)) :
       LET app == Startup(InitialFiles, order)
       IN /\ heap = app.heap
          /\ schemas = app.schemas
          /\ routes = app.routes
  /\ clock = 0
  /\ http = NoExchange
  /\ accepted = <<>>
  /\ InitCalls

NextServer ==
  \/ \E body \in Bodies, now \in DateNow, ioOk \in BOOLEAN : PostSchemas(body, now, ioOk)
  \/ GetSchemas
  \/ \E line \in RequestLines : Request(line[1], line[2], Query, NoBody)
  \/ Resume(1, TextReply(SureText)) /\ UNCHANGED serverVars
  \/ \E order \in Orders(JsonFiles(files)) : Restart(order)

SpecServer == InitServer /\ [][NextServer]_vars

\* ---------------------------------------------------------------- claims
Done(c) == pc[c] = "done"
\* The generation failed: the catch block ran.
Failed(c) == Done(c) /\ local[c].err # ""
FellBack(c) == Failed(c) /\ result[c].outcome = "returned"
ResponseSchemaOf(c) == Get(given[c].schema, "responseSchema")
\* What the request of a finished call settled with.
ReplyOf(c) == IF response[c] = Null THEN Rejected ELSE response[c]
IsTextReply(c) == response[c] # Null /\ Get(response[c].data, "response").t = "text"
TextOf(c) == Get(response[c].data, "response").q
ErrorValue == Obj([error |-> Str(ErrorMessage)])

\* C1: generate never fails outward: every finished call returned a value,
\* none threw.
C1_NeverFailsOutward ==
  \A c \in Calls : Done(c) => result[c].outcome = "returned"

\* A value matches a response schema: an object with the schema's fields, an
\* array of values matching the schema's element, a number for "number", a
\* string for "string".
RECURSIVE Matches(_, _)
Matches(v, rs) ==
  CASE rs = Str("number") -> v.t = "num"
    [] rs = Str("string") -> v.t = "str"
    [] rs.t = "obj" -> /\ v.t = "obj"
                       /\ DOMAIN v.f = DOMAIN rs.f
                       /\ \A k \in DOMAIN rs.f : Matches(v.f[k], rs.f[k])
    [] rs.t = "arr" -> /\ v.t = "arr"
                       /\ Len(rs.q) = 1
                       /\ \A i \in 1..Len(v.q) : Matches(v.q[i], rs.q[1])
    [] OTHER -> FALSE

\* C2: when the LLM's text is well-formed JSON that matches the schema,
\* generate returns the parsed value unchanged, arrays of objects included.
C2_WellFormedReturnedUnchanged ==
  \A c \in Calls :
    Done(c) /\ IsTextReply(c) =>
      LET p == JSONParse(TextOf(c))
      IN (p.ok /\ Matches(p.v, ResponseSchemaOf(c))) => result[c] = Returned(p.v)

\* The field names of a responseSchema as the claims read them: the keys of
\* its `properties` entry when it has one, else its own keys.
ClaimedEntries(rs) ==
  IF "properties" \in DOMAIN rs.f THEN ObjectEntries(rs.f["properties"]) ELSE rs.f

\* C3: when the LLM service is unreachable, generate returns an object whose
\* keys are exactly the schema's field names.
C3_UnreachableGivesSchemaKeys ==
  \A c \in Calls :
    Done(c) /\ local[c].err = ErrRequest /\ ResponseSchemaOf(c).t = "obj" =>
      /\ result[c].outcome = "returned"
      /\ result[c].value.t = "obj"
      /\ DOMAIN result[c].value.f = DOMAIN ClaimedEntries(ResponseSchemaOf(c))

\* The value the fallback rules give a field: the first element of a
\* non-empty enum list, else by the type name.
ExpectedValue(key, d) ==
  IF d.t = "obj" /\ "enum" \in DOMAIN d.f /\ d.f["enum"].t = "arr" /\ Len(d.f["enum"].q) > 0
  THEN d.f["enum"].q[1]
  ELSE LET type == IF d.t = "str" THEN d.s
                   ELSE IF d.t = "obj" /\ "type" \in DOMAIN d.f /\ d.f["type"].t = "str"
                        THEN d.f["type"].s
                        ELSE ""
       IN CASE type = "string" -> Str("sample_" \o key)
            [] type = "number" -> Num(123)
            [] type = "boolean" -> Bool(TRUE)
            [] OTHER -> Str("sample_" \o key)

ExampleFallback == Obj([a |-> Str("sample_a"), b |-> Num(123), c |-> Str("X")])

\* C4: every field of a fallback object holds the value the priority gives:
\* first element of a non-empty enum, else "sample_<name>" / 123 / true by type,
\* else "sample_<name>"; the example schema yields {a:"sample_a", b:123, c:"X"}.
C4_FallbackValues ==
  \A c \in Calls :
    FellBack(c) /\ ResponseSchemaOf(c).t = "obj" =>
      /\ \A k \in DOMAIN result[c].value.f :
           /\ k \in DOMAIN ClaimedEntries(ResponseSchemaOf(c))
           /\ result[c].value.f[k] = ExpectedValue(k, ClaimedEntries(ResponseSchemaOf(c))[k])
      /\ ResponseSchemaOf(c) = ExampleResponseSchema => result[c].value = ExampleFallback

C4_Witness ==
  \E c \in Calls :
    /\ FellBack(c)
    /\ ResponseSchemaOf(c) = ExampleResponseSchema
    /\ result[c].value = ExampleFallback

\* The responseSchema wraps a mapping in `properties`.
HasPropertiesMapping(rs) ==
  rs.t = "obj" /\ "properties" \in DOMAIN rs.f /\ rs.f["properties"].t = "obj"

\* C5 as stated: with a nested properties mapping, the fallback object has no
\* key named "properties" and no key of any other top-level key of the wrapper.
C5_NoWrapperKey ==
  \A c \in Calls :
    FellBack(c) /\ HasPropertiesMapping(ResponseSchemaOf(c)) =>
      \A k \in DOMAIN ResponseSchemaOf(c).f : k \notin DOMAIN result[c].value.f

\* C5: with a nested properties mapping, the keys of the fallback object are
\* exactly the keys of that mapping (so a wrapper key appears only when the
\* mapping has an entry of that name).
C5_KeysFromProperties ==
  \A c \in Calls :
    FellBack(c) /\ HasPropertiesMapping(ResponseSchemaOf(c)) =>
      DOMAIN result[c].value.f = DOMAIN ResponseSchemaOf(c).f["properties"].f

C5_Witness ==
  \E c \in Calls :
    /\ FellBack(c)
    /\ ResponseSchemaOf(c) = Obj([type |-> Str("object"),
                                  properties |-> Obj([a |-> Str("number")])])
    /\ result[c].value = Obj([a |-> Num(123)])

\* C6: generate returns { error: "Failed to generate mock response from LLM." }
\* exactly when the generation failed and the schema has no responseSchema;
\* with a responseSchema a failed generation returns the placeholder object.
C6_ErrorIffNoResponseSchema ==
  \A c \in Calls :
    Done(c) =>
      /\ result[c] = Returned(ErrorValue)
           <=> (Failed(c) /\ ResponseSchemaOf(c).t \in {"undefined", "null"})
      /\ Failed(c) /\ ResponseSchemaOf(c).t \notin {"undefined", "null"} =>
           /\ result[c].outcome = "returned"
           /\ result[c].value.t = "obj"
           /\ result[c].value # ErrorValue

FirstIndex(s, ch) == CHOOSE i \in 1..Len(s) : s[i] = ch /\ \A j \in 1..(i - 1) : s[j] # ch
LastIndex(s, ch) == CHOOSE i \in 1..Len(s) : s[i] = ch /\ \A j \in (i + 1)..Len(s) : s[j] # ch
HasPair(s, open, close) == \E i, j \in 1..Len(s) : i < j /\ s[i] = open /\ s[j] = close

\* C7: a text with a '{' and a later '}' gives the candidate from its first
\* '{' to its last '}'; the '[' to ']' match is used exactly when there is no
\* such object match; 'Sure! ... {"x":1}' yields {x:1} and '[1,2,3]' yields [1,2,3].
C7_CandidateSelection ==
  \A c \in Calls :
    Done(c) /\ IsTextReply(c) =>
      LET s == TextOf(c)
      IN /\ HasPair(s, "{", "}") =>
              /\ local[c].strategy = 1
              /\ local[c].jsonContent = Text(SubSeq(s, FirstIndex(s, "{"), LastIndex(s, "}")))
         /\ local[c].strategy = 2 =>
              /\ ~HasPair(s, "{", "}")
              /\ local[c].jsonContent = Text(SubSeq(s, FirstIndex(s, "["), LastIndex(s, "]")))
         /\ ~HasPair(s, "{", "}") /\ HasPair(s, "[", "]") => local[c].strategy = 2
         /\ s = SureText => result[c] = Returned(Obj([x |-> Num(1)]))
         /\ s = BareArrayText => result[c] = Returned(Arr(<<Num(1), Num(2), Num(3)>>))

C7_Witness ==
  \E c \in Calls :
    /\ Done(c) /\ IsTextReply(c)
    /\ TextOf(c) = SureText
    /\ local[c].strategy = 1
    /\ result[c] = Returned(Obj([x |-> Num(1)]))

\* C8: two failed generations for the same responseSchema settle the same
\* way, whatever the kind of failure, the LLM's text and the input.
C8_SameFallback ==
  \A c1, c2 \in Calls :
    Failed(c1) /\ Failed(c2) /\ ResponseSchemaOf(c1) = ResponseSchemaOf(c2) =>
      result[c1] = result[c2]

C8_Witness ==
  \E c1, c2 \in Calls :
    /\ FellBack(c1) /\ FellBack(c2)
    /\ local[c1].err = ErrRequest /\ local[c2].err = ErrSyntax
    /\ given[c1].input # given[c2].input
    /\ given[c1].ref # given[c2].ref
    /\ ResponseSchemaOf(c1) = ExampleResponseSchema
    /\ ResponseSchemaOf(c2) = ExampleResponseSchema
    /\ result[c1] = result[c2]

\* C9: a call of generate has sent exactly one request from the moment it
\* suspends, on every path, and none before.
C9_OneRequest ==
  \A c \in Calls :
    /\ pc[c] = "idle" => requests[c] = 0
    /\ pc[c] \in {"awaiting", "done"} => requests[c] = 1

C9_Witness ==
  \E c1, c2 \in Calls :
    /\ Failed(c1) /\ requests[c1] = 1
    /\ Done(c2) /\ ~Failed(c2) /\ requests[c2] = 1

\* C10: under every interleaving each call settles as it would alone on its
\* own schema, input and reply, and the schema object it was given keeps its value.
C10_Independent ==
  \A c \in Calls :
    /\ Done(c) => result[c] = GenerateBody(given[c].schema, given[c].input, ReplyOf(c))
    /\ pc[c] # "idle" => heap[given[c].ref] = given[c].schema

C10_Witness ==
  \E c1, c2 \in Calls :
    /\ Done(c1) /\ Done(c2)
    /\ c1 \in given[c2].during
    /\ given[c1].ref # given[c2].ref
    /\ given[c1].schema # given[c2].schema
    /\ Failed(c1) /\ Failed(c2)
    /\ result[c1] # result[c2]

\* The LLM's text is, as a whole, a JSON number or a JSON string.
BareScalar(c) ==
  JSONParse(TextOf(c)).ok /\ JSONParse(TextOf(c)).v.t \in {"num", "str"}

KeyOf(schema) ==
  IF Get(schema, "method").t = "str" /\ Get(schema, "endpoint").t = "str"
  THEN Key(ToLowerCase(Get(schema, "method").s), Get(schema, "endpoint").s)
  ELSE ""

\* The latest exchange is a request to a virtual API.
ApiRequest == http.req \in {Key(line[1], line[2]) : line \in RequestLines}

\* Entry i of `accepted` is the latest one this process took for its key.
LatestAccepted(i) ==
  /\ accepted[i].live
  /\ \A j \in DOMAIN accepted :
       j > i => KeyOf(accepted[j].schema) # KeyOf(accepted[i].schema)

\* C11: once POST /schemas has replied success for a schema with method M
\* and endpoint E, a later M request to E has generate called with that
\* schema (the latest one posted for M and E), also when M and E had been
\* registered before.
C11_LatestPostServed ==
  \A i \in DOMAIN accepted :
    ApiRequest /\ LatestAccepted(i) /\ http.req = KeyOf(accepted[i].schema)
      => given[1].schema = accepted[i].schema

\* The body has no endpoint, no method or no responseSchema.
Lacks(body) ==
  \E k \in {"endpoint", "method", "responseSchema"} : k \notin DOMAIN body.f

\* C12: POST /schemas with a body lacking endpoint, method or responseSchema
\* replies 400 { error: 'Invalid schema format' } and changes nothing: no
\* file is written, no route is registered, and what GET /schemas returns
\* stays as it was.
C12_RejectedChangesNothing ==
  [][ http'.n = http.n + 1 /\ Lacks(http'.body)
        => /\ http'.req = "POST /schemas"
           /\ http'.status = 400
           /\ http'.reply = InvalidFormat
           /\ files' = files
           /\ routes' = routes
           /\ schemas' = schemas
           /\ Listed' = Listed ]_vars

C12_Witness ==
  /\ http.req = "POST /schemas"
  /\ Lacks(http.body)
  /\ http.status = 400
  /\ accepted # <<>>
  /\ Len(schemas) > 1

\* C13: every schema POST /schemas replied success for is held by a .json
\* file of the directory, and once the process has been restarted it is
\* registered again: a route for its method and endpoint holds a schema with
\* its responseSchema.
C13_SurvivesRestart ==
  \A i \in DOMAIN accepted :
    LET a == accepted[i]
    IN /\ a.file \in JsonFiles(files)
       /\ ~a.live =>
            \E j \in DOMAIN routes :
              /\ routes[j].schema # 0
              /\ Key(routes[j].method, routes[j].route) = KeyOf(a.schema)
              /\ Get(heap[routes[j].schema], "responseSchema")
                   = Get(a.schema, "responseSchema")

\* Route j answers the requests for its method and path.
Serves(j) ==
  /\ routes[j].schema # 0
  /\ Dispatch(routes, routes[j].method, routes[j].route) = j

\* C14: the schemas GET /schemas lists are exactly the schemas served: each
\* entry of the registry has a route for its method and endpoint that
\* answers with that same schema object, and each schema a route answers
\* with is in the registry.
C14_ListedAreServed ==
  /\ \A i \in DOMAIN schemas :
       \E j \in DOMAIN routes :
         /\ Serves(j)
         /\ Key(routes[j].method, routes[j].route) = schemas[i].key
         /\ routes[j].schema = schemas[i].ref
  /\ \A j \in DOMAIN routes :
       Serves(j) => \E i \in DOMAIN schemas : schemas[i].ref = routes[j].schema

====
